---- MODULE Spec2Model ----
(***************************************************************************)
(* Model of the termtask flat-file task store (src/termtask/cli.py).       *)
(*                                                                         *)
(* The store root holds one directory per list; a list directory holds    *)
(* the active task files <id>.toml and a _complete sub-directory with the  *)
(* completed ones.  Every command of the click group is one action.        *)
(* Path.rename follows POSIX: an existing target file is replaced.         *)
(***************************************************************************)
EXTENDS Integers, Sequences, FiniteSets, TLC

\* ---- bounds ----
MaxClock == 3          \* clock readings 0..MaxClock
MaxTasks == 2          \* cap on the task files in the store
IdRange == 2           \* number of distinct digests (16^6 in the program, scaled)

\* ---- program constants ----
DefaultPriority == 5
Week == 7
DueArg == 30

\* ---- input sets ----
ListNames == {"work", "home"}
Ids == 0 .. (IdRange - 1)
\* command lines tried: <<name, priority, message, due>>, <<>> = option omitted
AddArgs ==
  { <<"a", <<>>, <<>>, <<>>>>,
    <<"b", <<1>>, <<"m">>, <<DueArg>>>> }
UpdateArgs ==
  { << <<>>, <<>>, <<>>, <<>> >>,
    << <<"b">>, <<1>>, <<"m">>, <<DueArg>> >>,
    << <<"">>, <<0>>, <<"">>, <<>> >> }

\* ---- messages written by echo / the interpreter ----
NoOutput == "none"
NoSuchList == "No such list exists. Please create the list before continuing."
ListExists == "List already exists."
ErrorCreatingList == "Error creating list."
AnErrorOccured == "An error occured"
Traceback == "Traceback"

VARIABLES
  iterdir,       \* the list directories of the store root, in enumeration order
  hasComplete,   \* the lists whose _complete sub-directory exists
  active,        \* active[L][id]: the file <root>/L/<id>.toml
  done,          \* done[L][id]: the file <root>/L/_complete/<id>.toml
  clock,         \* the last reading of the wall clock
  last,          \* the last invocation: command, message printed, exit code,
                 \* and the list name show printed
  procs          \* the invocations running at the same time, with their position

vars == <<iterdir, hasComplete, active, done, clock, last, procs>>
store == <<iterdir, hasComplete, active, done>>

\* ---- helpers ----
Range(s) == {s[i] : i \in 1 .. Len(s)}
Lists == Range(iterdir)
Remove(f, k) == [x \in (DOMAIN f) \ {k} |-> f[x]]
Put(f, k, v) == (k :> v) @@ f
InsertAt(s, i, e) == SubSeq(s, 1, i - 1) \o <<e>> \o SubSeq(s, i, Len(s))
Result(op, err, exit) == [op |-> op, err |-> err, exit |-> exit, out |-> ""]

\* click: an omitted option takes its declared default
ClickDefault(opt, default) == IF opt = <<>> THEN default ELSE opt[1]

\* hashlib.shake_256(datetime.now().isoformat().encode()).hexdigest(3)
hexdigest(now) == now % IdRange

\* Task.__init__
Task(name, priority, message, due_datetime, hash_id, path) ==
  [name |-> name, priority |-> priority, message |-> message,
   due_datetime |-> due_datetime, hash_id |-> hash_id, path |-> path]

\* Task.to_toml_string: the document holds the four keys, not the id or path
to_toml_string(task) ==
  [name |-> task.name, priority |-> task.priority, message |-> task.message,
   due_datetime |-> task.due_datetime]

\* Task.from_toml_file: id from the file stem, path as given
from_toml_file(toml_path) ==
  LET toml == active[toml_path[1]][toml_path[2]].doc
  IN  Task(toml.name, toml.priority, toml.message, toml.due_datetime,
           toml_path[2], toml_path)

\* the lists, in enumeration order, whose active partition holds <task_id>.toml
Matches(task_id) ==
  SelectSeq(iterdir, LAMBDA list_dir : task_id \in DOMAIN active[list_dir])

\* the number of task files in the store
NumFiles ==
  LET n[S \in SUBSET ListNames] ==
        IF S = {} THEN 0
        ELSE LET L == CHOOSE x \in S : TRUE
             IN  Cardinality(DOMAIN active[L]) + Cardinality(DOMAIN done[L]) + n[S \ {L}]
  IN  n[ListNames]

Init ==
  /\ iterdir = <<>>
  /\ hasComplete = {}
  /\ active = [L \in ListNames |-> <<>>]
  /\ done = [L \in ListNames |-> <<>>]
  /\ clock = 0
  /\ last = Result("cli", NoOutput, 0)
  /\ procs = <<>>

\* ---- list [<list>] [--complete] ----
list(list_name, complete) ==
  /\ UNCHANGED <<store, clock>>
  /\ IF list_name # <<>> /\ list_name[1] # ""
     THEN LET exists == IF complete THEN list_name[1] \in hasComplete
                                    ELSE list_name[1] \in Lists
          IN  IF ~exists THEN last' = Result("list", NoSuchList, 1)
                         ELSE last' = Result("list", NoOutput, 0)
     ELSE last' = Result("list", NoOutput, 0)

\* the Task ID column of the table printed by list <list> [--complete]
ListRows(act, dn, list_name, complete) ==
  IF complete THEN DOMAIN dn[list_name] ELSE DOMAIN act[list_name]

\* ---- add <list> <task name> [-p] [-m] [-d] ----
\* the file written by add at clock reading now
NewFile(task_name, priority_opt, message_opt, due_opt, now, list_name) ==
  LET priority == ClickDefault(priority_opt, DefaultPriority)
      message == ClickDefault(message_opt, "")
      due == IF due_opt = <<>> THEN now + Week ELSE due_opt[1]
      task_created_hash == hexdigest(now)
      task == Task(task_name, priority, message, due, task_created_hash,
                   <<list_name, task_created_hash>>)
  IN  [doc |-> to_toml_string(task), born |-> now]

\* add with the list created on demand instead of the ListNotFound exit
add_makedirs(list_name, task_name, priority_opt, message_opt, due_opt, now, oserror) ==
  LET file == NewFile(task_name, priority_opt, message_opt, due_opt, now, list_name)
  IN  /\ clock' = now
      /\ UNCHANGED <<hasComplete, done>>
      /\ iterdir' = IF list_name \in Lists THEN iterdir ELSE Append(iterdir, list_name)
      /\ IF oserror
         THEN /\ last' = Result("add", AnErrorOccured, 1)
              /\ UNCHANGED active
         ELSE /\ active' = [active EXCEPT ![list_name] = Put(@, hexdigest(now), file)]
              /\ last' = Result("add", NoOutput, 0)

add(list_name, task_name, priority_opt, message_opt, due_opt, now, oserror) ==
  IF list_name \notin Lists
  THEN /\ last' = Result("add", NoSuchList, 1)
       /\ UNCHANGED <<store, clock>>
  ELSE LET file == NewFile(task_name, priority_opt, message_opt, due_opt, now, list_name)
       IN  /\ clock' = now
           /\ UNCHANGED <<iterdir, hasComplete, done>>
           /\ IF oserror
              THEN /\ last' = Result("add", AnErrorOccured, 1)
                   /\ UNCHANGED active
              ELSE /\ active' = [active EXCEPT ![list_name] =
                                   Put(@, hexdigest(now), file)]
                   /\ last' = Result("add", NoOutput, 0)

\* ---- addlist <list> ----
\* failing = 0: both mkdir calls succeed; 1: the first raises; 2: the second raises
CreateDirs(list_name, failing, pos) ==
  /\ UNCHANGED <<active, done, clock>>
  /\ IF failing = 1
     THEN /\ UNCHANGED <<iterdir, hasComplete>>
          /\ last' = Result("addlist", ErrorCreatingList, 0)
     ELSE /\ iterdir' = InsertAt(iterdir, pos, list_name)
          /\ IF failing = 2
             THEN /\ UNCHANGED hasComplete
                  /\ last' = Result("addlist", ErrorCreatingList, 0)
             ELSE /\ hasComplete' = hasComplete \cup {list_name}
                  /\ last' = Result("addlist", NoOutput, 0)

\* add_list without the sys.exit(1): os.mkdir raises FileExistsError, which
\* the handler prints before returning normally
add_list_no_exit(list_name, failing, pos) ==
  IF list_name \in Lists
  THEN /\ last' = Result("addlist", ErrorCreatingList, 0)
       /\ UNCHANGED <<store, clock>>
  ELSE CreateDirs(list_name, failing, pos)

add_list(list_name, failing, pos) ==
  IF list_name \in Lists
  THEN /\ last' = Result("addlist", ListExists, 1)
       /\ UNCHANGED <<store, clock>>
  ELSE CreateDirs(list_name, failing, pos)

\* ---- complete <id> ----
\* complete reporting an unknown id as a failure instead of doing nothing
complete_not_found_exits(task_id) ==
  /\ UNCHANGED <<iterdir, hasComplete, clock>>
  /\ IF Matches(task_id) = <<>>
     THEN /\ UNCHANGED <<active, done>>
          /\ last' = Result("complete", Traceback, 1)
     ELSE LET list_dir == Head(Matches(task_id))
          IN  IF list_dir \notin hasComplete
              THEN /\ UNCHANGED <<active, done>>
                   /\ last' = Result("complete", Traceback, 1)
              ELSE /\ done' = [done EXCEPT ![list_dir] =
                                  Put(@, task_id, active[list_dir][task_id])]
                   /\ active' = [active EXCEPT ![list_dir] = Remove(@, task_id)]
                   /\ last' = Result("complete", NoOutput, 0)

complete(task_id) ==
  /\ UNCHANGED <<iterdir, hasComplete, clock>>
  /\ IF Matches(task_id) = <<>>
     THEN /\ UNCHANGED <<active, done>>
          /\ last' = Result("complete", NoOutput, 0)
     ELSE LET list_dir == Head(Matches(task_id))
          IN  IF list_dir \notin hasComplete
              THEN \* rename into a missing directory: FileNotFoundError
                   /\ UNCHANGED <<active, done>>
                   /\ last' = Result("complete", Traceback, 1)
              ELSE /\ done' = [done EXCEPT ![list_dir] =
                                  Put(@, task_id, active[list_dir][task_id])]
                   /\ active' = [active EXCEPT ![list_dir] = Remove(@, task_id)]
                   /\ last' = Result("complete", NoOutput, 0)

\* ---- show <id> ----
show(task_id) ==
  /\ UNCHANGED <<store, clock>>
  /\ IF Matches(task_id) = <<>>
     THEN last' = Result("show", NoOutput, 0)
     ELSE LET list_dir == Head(Matches(task_id))
              task == from_toml_file(<<list_dir, task_id>>)
          IN  last' = [Result("show", NoOutput, 0) EXCEPT !.out = list_dir]

\* ---- move <id> <list> ----
\* the rename of the first match into list_name's active partition
Relocate(task_id, list_name) ==
  IF Matches(task_id) = <<>>
  THEN UNCHANGED active
  ELSE LET list_dir == Head(Matches(task_id))
           file == active[list_dir][task_id]
       IN  active' = [L \in ListNames |->
             IF L = list_name THEN Put(active[L], task_id, file)
             ELSE IF L = list_dir THEN Remove(active[L], task_id)
             ELSE active[L]]

\* move with the destination created on demand instead of the ListNotFound exit
move_makedirs(task_id, list_name) ==
  /\ UNCHANGED <<hasComplete, done, clock>>
  /\ iterdir' = IF list_name \in Lists THEN iterdir ELSE Append(iterdir, list_name)
  /\ last' = Result("move", NoOutput, 0)
  /\ Relocate(task_id, list_name)

move(task_id, list_name) ==
  /\ UNCHANGED <<iterdir, hasComplete, done, clock>>
  /\ IF list_name \notin Lists
     THEN /\ UNCHANGED active
          /\ last' = Result("move", NoSuchList, 1)
     ELSE /\ last' = Result("move", NoOutput, 0)
          /\ Relocate(task_id, list_name)

\* ---- update <id> [-n] [-p] [-m] [-d] ----
\* the fields of one decoded task after the four truthiness tests
\* the four tests written as "is not None": every supplied value is stored
Overwrite_is_not_None(task, name, priority, message, due) ==
  [task EXCEPT
     !.name = IF name # <<>> THEN name[1] ELSE @,
     !.priority = IF priority # <<>> THEN priority[1] ELSE @,
     !.message = IF message # <<>> THEN message[1] ELSE @,
     !.due_datetime = IF due # <<>> THEN due[1] ELSE @]

Overwrite(task, name, priority, message, due) ==
  [task EXCEPT
     !.name = IF name # <<>> /\ name[1] # "" THEN name[1] ELSE @,
     !.priority = IF priority # <<>> /\ priority[1] # 0 THEN priority[1] ELSE @,
     !.message = IF message # <<>> /\ message[1] # "" THEN message[1] ELSE @,
     !.due_datetime = IF due # <<>> THEN due[1] ELSE @]

\* update with task initialised to None and a silent return when nothing matched
update_returns_silently(task_id, name, priority, message, due, oserror) ==
  /\ UNCHANGED <<iterdir, hasComplete, done, clock>>
  /\ IF Matches(task_id) = <<>>
     THEN /\ UNCHANGED active
          /\ last' = Result("update", NoOutput, 0)
     ELSE LET found == Matches(task_id)
              list_dir == found[Len(found)]
              task == Overwrite(from_toml_file(<<list_dir, task_id>>),
                                name, priority, message, due)
              born == active[list_dir][task_id].born
          IN  IF oserror
              THEN /\ UNCHANGED active
                   /\ last' = Result("update", AnErrorOccured, 1)
              ELSE /\ active' = [active EXCEPT ![task.path[1]][task.path[2]] =
                                   [doc |-> to_toml_string(task), born |-> born]]
                   /\ last' = Result("update", NoOutput, 0)

update(task_id, name, priority, message, due, oserror) ==
  /\ UNCHANGED <<iterdir, hasComplete, done, clock>>
  /\ IF Matches(task_id) = <<>>
     THEN \* task is unbound: UnboundLocalError raised inside the try block
          /\ UNCHANGED active
          /\ last' = Result("update", AnErrorOccured, 1)
     ELSE LET found == Matches(task_id)
              list_dir == found[Len(found)]
              task == Overwrite(from_toml_file(<<list_dir, task_id>>),
                                name, priority, message, due)
              born == active[list_dir][task_id].born
          IN  IF oserror
              THEN /\ UNCHANGED active
                   /\ last' = Result("update", AnErrorOccured, 1)
              ELSE /\ active' = [active EXCEPT ![task.path[1]][task.path[2]] =
                                   [doc |-> to_toml_string(task), born |-> born]]
                   /\ last' = Result("update", NoOutput, 0)

Next ==
  \/ /\ \E L \in {<<>>} \cup {<<n>> : n \in ListNames}, c \in BOOLEAN : list(L, c)
     /\ UNCHANGED procs
  \/ /\ \E L \in ListNames, a \in AddArgs, now \in (clock + 1) .. MaxClock,
           e \in BOOLEAN :
           NumFiles < MaxTasks /\ add(L, a[1], a[2], a[3], a[4], now, e)
     /\ UNCHANGED procs
  \/ /\ \E L \in ListNames, f \in 0 .. 2, pos \in 1 .. (Len(iterdir) + 1) :
           add_list(L, f, pos)
     /\ UNCHANGED procs
  \/ /\ \E id \in Ids : complete(id)
     /\ UNCHANGED procs
  \/ /\ \E id \in Ids : show(id)
     /\ UNCHANGED procs
  \/ /\ \E id \in Ids, L \in ListNames : move(id, L)
     /\ UNCHANGED procs
  \/ /\ \E id \in Ids, u \in UpdateArgs, e \in BOOLEAN :
           update(id, u[1], u[2], u[3], u[4], e)
     /\ UNCHANGED procs

Spec == Init /\ [][Next]_vars

\* ---- two invocations at the same time, no locking ----
\* Each filesystem call of complete, move and update is one step: the
\* destination test, the exists() test of the scan, the read, the rename and
\* the open-for-write.
Procs == {1, 2}

Invocation(cmd, task_id, list_name, args) ==
  [cmd |-> cmd, id |-> task_id, dest |-> list_name, args |-> args,
   pc |-> IF cmd = "move" THEN "check" ELSE "scan",
   i |-> 1, task |-> <<>>, exit |-> 0]

Invocations ==
  {Invocation("complete", id, "", <<>>) : id \in Ids}
    \cup {Invocation("move", id, D, <<>>) : id \in Ids, D \in ListNames}
    \cup {Invocation("update", id, "", u) : id \in Ids, u \in UpdateArgs}

\* the store after addlist work, addlist home, add work a, add home b -p 1 -m m -d ...
ConcInit ==
  /\ iterdir \in {<<"work", "home">>, <<"home", "work">>}
  /\ hasComplete = ListNames
  /\ active = [L \in ListNames |->
                 IF L = "work"
                 THEN hexdigest(1) :> NewFile("a", <<>>, <<>>, <<>>, 1, "work")
                 ELSE hexdigest(2) :> NewFile("b", <<1>>, <<"m">>, <<DueArg>>, 2, "home")]
  /\ done = [L \in ListNames |-> <<>>]
  /\ clock = 2
  /\ last = Result("cli", NoOutput, 0)
  /\ procs \in [Procs -> Invocations]

Finish(p, exit) == procs' = [procs EXCEPT ![p].pc = "done", ![p].exit = exit]

\* move: the test of the destination list
DestCheck(p) ==
  /\ procs[p].pc = "check"
  /\ UNCHANGED <<store, clock, last>>
  /\ IF procs[p].dest \notin Lists
     THEN Finish(p, 1)
     ELSE procs' = [procs EXCEPT ![p].pc = "scan"]

\* one turn of the scan: file_path.exists() for the next list directory
ExistsCheck(p) ==
  LET self == procs[p]
  IN  /\ self.pc = "scan"
      /\ UNCHANGED <<store, clock, last>>
      /\ IF self.i > Len(iterdir)
         THEN IF self.cmd = "update"
              THEN procs' = [procs EXCEPT ![p].pc = "write"]
              ELSE Finish(p, 0)
         ELSE IF self.id \in DOMAIN active[iterdir[self.i]]
              THEN procs' = [procs EXCEPT ![p].pc =
                               IF self.cmd = "update" THEN "read" ELSE "rename"]
              ELSE procs' = [procs EXCEPT ![p].i = self.i + 1]

\* a rename that copies the file and leaves the source in place
Rename_copies(p) ==
  LET self == procs[p]
      list_dir == iterdir[self.i]
  IN  /\ self.pc = "rename"
      /\ UNCHANGED <<iterdir, hasComplete, clock, last>>
      /\ IF self.id \notin DOMAIN active[list_dir]
         THEN UNCHANGED <<active, done>> /\ Finish(p, 1)
         ELSE LET file == active[list_dir][self.id]
              IN  IF self.cmd = "complete"
                  THEN IF list_dir \notin hasComplete
                       THEN UNCHANGED <<active, done>> /\ Finish(p, 1)
                       ELSE /\ done' = [done EXCEPT ![list_dir] = Put(@, self.id, file)]
                            /\ UNCHANGED active
                            /\ Finish(p, 0)
                  ELSE /\ active' = [L \in ListNames |->
                              IF L = self.dest THEN Put(active[L], self.id, file)
                              ELSE active[L]]
                       /\ UNCHANGED done
                       /\ Finish(p, 0)

\* complete, move: file_path.rename(...), then break
Rename(p) ==
  LET self == procs[p]
      list_dir == iterdir[self.i]
  IN  /\ self.pc = "rename"
      /\ UNCHANGED <<iterdir, hasComplete, clock, last>>
      /\ IF self.id \notin DOMAIN active[list_dir]
         THEN \* the file is gone: FileNotFoundError
              UNCHANGED <<active, done>> /\ Finish(p, 1)
         ELSE LET file == active[list_dir][self.id]
              IN  IF self.cmd = "complete"
                  THEN IF list_dir \notin hasComplete
                       THEN UNCHANGED <<active, done>> /\ Finish(p, 1)
                       ELSE /\ done' = [done EXCEPT ![list_dir] = Put(@, self.id, file)]
                            /\ active' = [active EXCEPT ![list_dir] = Remove(@, self.id)]
                            /\ Finish(p, 0)
                  ELSE /\ active' = [L \in ListNames |->
                              IF L = self.dest THEN Put(active[L], self.id, file)
                              ELSE IF L = list_dir THEN Remove(active[L], self.id)
                              ELSE active[L]]
                       /\ UNCHANGED done
                       /\ Finish(p, 0)

\* update: Task.from_toml_file(file_path) and the four tests, then the next turn
Read(p) ==
  LET self == procs[p]
      list_dir == iterdir[self.i]
  IN  /\ self.pc = "read"
      /\ UNCHANGED <<store, clock, last>>
      /\ IF self.id \notin DOMAIN active[list_dir]
         THEN \* the file is gone: FileNotFoundError outside the try block
              Finish(p, 1)
         ELSE procs' = [procs EXCEPT
                 ![p].task = << Overwrite(from_toml_file(<<list_dir, self.id>>),
                                          self.args[1], self.args[2],
                                          self.args[3], self.args[4]),
                                active[list_dir][self.id].born >>,
                 ![p].i = self.i + 1,
                 ![p].pc = "scan"]

\* update: open(task.path, 'w') and the write; the file is created when missing
Write(p) ==
  LET self == procs[p]
  IN  /\ self.pc = "write"
      /\ UNCHANGED <<iterdir, hasComplete, done, clock, last>>
      /\ IF self.task = <<>>
         THEN UNCHANGED active /\ Finish(p, 1)
         ELSE LET task == self.task[1]
              IN  /\ active' = [active EXCEPT ![task.path[1]] =
                         Put(@, task.path[2],
                             [doc |-> to_toml_string(task), born |-> self.task[2]])]
                  /\ Finish(p, 0)

ConcNext ==
  \/ \E p \in Procs : DestCheck(p)
  \/ \E p \in Procs : ExistsCheck(p)
  \/ \E p \in Procs : Rename(p)
  \/ \E p \in Procs : Read(p)
  \/ \E p \in Procs : Write(p)

ConcSpec == ConcInit /\ [][ConcNext]_vars

\* ---- properties ----
\* every task file of the store, with its list, partition and id
FilesOf(act, dn) ==
  UNION { {<<L, "active", id, act[L][id]>> : id \in DOMAIN act[L]}
          \cup {<<L, "_complete", id, dn[L][id]>> : id \in DOMAIN dn[L]}
          : L \in ListNames }
Readings == 1 .. MaxClock

\* C1: complete(id) on an id active in list L moves the file, content
\* unchanged, from L's active partition to L's _complete partition; list(L)
\* no longer shows the id, list(L, --complete) does, and nothing else changes.
C1_CompleteMovesToComplete ==
  [][\A id \in Ids, L \in ListNames :
       (L \in Lists /\ id \in DOMAIN active[L] /\ complete(id)) =>
         /\ id \notin DOMAIN active'[L]
         /\ id \in DOMAIN done'[L]
         /\ done'[L][id].doc = active[L][id].doc
         /\ id \notin ListRows(active', done', L, FALSE)
         /\ id \in ListRows(active', done', L, TRUE)
         /\ FilesOf(active', done') \ {<<L, "_complete", id, active[L][id]>>}
              = FilesOf(active, done) \ {<<L, "active", id, active[L][id]>>}
         /\ UNCHANGED <<iterdir, hasComplete>>]_vars

\* C2: move(id, D) on an id active in list S and an existing list D leaves the
\* task active in D with the same id and content, removes it from S when
\* S differs from D, and changes no other task file.
C2_MoveRelocates ==
  [][\A id \in Ids, S \in ListNames, D \in ListNames :
       (S \in Lists /\ id \in DOMAIN active[S] /\ D \in Lists /\ move(id, D)) =>
         /\ id \in DOMAIN active'[D]
         /\ active'[D][id].doc = active[S][id].doc
         /\ (S # D => id \notin DOMAIN active'[S])
         /\ FilesOf(active', done') \ {<<D, "active", id, active[S][id]>>}
              = FilesOf(active, done) \ {<<S, "active", id, active[S][id]>>}]_vars

\* C3: a successful add into an existing list L adds exactly one file to L's
\* active partition, carrying the supplied fields (priority 5 when omitted),
\* and leaves every pre-existing task file unchanged.
C3_AddCreatesOneFile ==
  [][\A L \in ListNames, a \in AddArgs, now \in Readings :
       (L \in Lists /\ add(L, a[1], a[2], a[3], a[4], now, FALSE)) =>
         /\ Cardinality(DOMAIN active'[L]) = Cardinality(DOMAIN active[L]) + 1
         /\ \E id \in (DOMAIN active'[L]) \ (DOMAIN active[L]) :
              LET doc == active'[L][id].doc
              IN  /\ doc.name = a[1]
                  /\ doc.priority = (IF a[2] = <<>> THEN 5 ELSE a[2][1])
                  /\ (a[3] # <<>> => doc.message = a[3][1])
                  /\ (a[4] # <<>> => doc.due_datetime = a[4][1])
         /\ FilesOf(active, done) \subseteq FilesOf(active', done')]_vars

\* C4: add into a name that is not a list directory reports the missing list,
\* exits with code 1 and leaves the whole store unchanged.
\* (Written "outcome, or the step is no such invocation".)
C4_AddMissingListFails ==
  [][last'.op = "add" =>
       \/ /\ last'.exit = 1
          /\ last'.err = NoSuchList
          /\ UNCHANGED store
       \/ ~ \E L \in ListNames \ Lists, a \in AddArgs, now \in Readings, e \in BOOLEAN :
              add(L, a[1], a[2], a[3], a[4], now, e)]_vars

C4_Witness ==
  /\ last = Result("add", NoSuchList, 1)
  /\ Lists # {} /\ Lists # ListNames
  /\ NumFiles > 0

\* C5: move to a destination that is not a list directory reports the missing
\* list, exits with code 1 and leaves the whole store unchanged.
C5_MoveMissingListFails ==
  [][last'.op = "move" =>
       \/ /\ last'.exit = 1
          /\ last'.err = NoSuchList
          /\ UNCHANGED store
       \/ ~ \E D \in ListNames \ Lists, id \in Ids : move(id, D)]_vars

C5_Witness ==
  /\ last = Result("move", NoSuchList, 1)
  /\ Lists # ListNames
  /\ \E L \in Lists : DOMAIN active[L] # {}

\* C6: addlist on an existing list reports it, exits with code 1 and leaves
\* that list's active and completed tasks and every other list unchanged.
C6_AddlistExistingFails ==
  [][last'.op = "addlist" =>
       \/ /\ last'.exit = 1
          /\ last'.err = ListExists
          /\ UNCHANGED store
       \/ ~ \E L \in Lists, f \in 0 .. 2, pos \in 1 .. (Len(iterdir) + 1) :
              add_list(L, f, pos)]_vars

C6_Witness ==
  /\ last = Result("addlist", ListExists, 1)
  /\ \E L \in Lists : DOMAIN active[L] # {} /\ DOMAIN done[L] # {}

\* C7: a successful update(id, ...) of an active task sets each field to the
\* supplied value exactly when the option was supplied (an empty message or
\* priority 0 included), keeps it otherwise, and changes nothing else.
C7_UpdateSetsSuppliedFields ==
  [][\A id \in Ids, L \in ListNames, u \in UpdateArgs :
       (L \in Lists /\ id \in DOMAIN active[L]
          /\ update(id, u[1], u[2], u[3], u[4], FALSE)) =>
         /\ id \in DOMAIN active'[L]
         /\ LET old == active[L][id].doc
                new == active'[L][id].doc
            IN  /\ new.name = (IF u[1] # <<>> THEN u[1][1] ELSE old.name)
                /\ new.priority = (IF u[2] # <<>> THEN u[2][1] ELSE old.priority)
                /\ new.message = (IF u[3] # <<>> THEN u[3][1] ELSE old.message)
                /\ new.due_datetime = (IF u[4] # <<>> THEN u[4][1] ELSE old.due_datetime)
         /\ FilesOf(active', done') \ {<<L, "active", id, active'[L][id]>>}
              = FilesOf(active, done) \ {<<L, "active", id, active[L][id]>>}]_vars

\* C8: no two task files of the store, over all lists and both partitions,
\* have the same id.
C8_UniqueIds ==
  \A x \in FilesOf(active, done), y \in FilesOf(active, done) :
     x[3] = y[3] => x = y

\* C9: no task and no list is ever deleted: no step removes a task file or
\* changes its content, other than a successful update of that task, and the
\* set of list names never shrinks.
C9_NothingDeleted ==
  [][/\ \A x \in FilesOf(active, done) :
          \E y \in FilesOf(active', done') :
             /\ y[3] = x[3]
             /\ y[4].born = x[4].born
             /\ \/ y[4].doc = x[4].doc
                \/ /\ x[2] = "active"
                   /\ \E u \in UpdateArgs : update(x[3], u[1], u[2], u[3], u[4], FALSE)
     /\ Lists \subseteq Lists']_vars

\* C10: every list directory contains its _complete sub-directory.
C10_ListsHaveComplete ==
  \A L \in Lists : L \in hasComplete

\* C11: an invocation of add, addlist, move, list or update exits with code 1
\* exactly when it reported a failure.
C11_FailureExitsOne ==
  last.op \in {"add", "addlist", "move", "list", "update"} =>
    (last.err # NoOutput <=> last.exit = 1)

\* C12: with add's priority in 1..5 or omitted and update's in 0..5 or
\* omitted, every task file of the store has an integer priority in 1..5.
C12_PriorityInRange ==
  \A x \in FilesOf(active, done) : x[4].doc.priority \in 1 .. 5

C12_Witness ==
  /\ last = Result("update", NoOutput, 0)
  /\ \E x \in FilesOf(active, done) : x[4].doc.priority = 1
  /\ \E x \in FilesOf(active, done) : x[4].doc.priority = 5

\* C13: once a task file is in a _complete partition, no update, complete,
\* move or show invoked with its id changes its content or its location.
C13_CompletedUnreachable ==
  [][\A L \in ListNames :
       \A id \in DOMAIN done[L] :
         (\/ complete(id)
          \/ show(id)
          \/ \E D \in ListNames : move(id, D)
          \/ \E u \in UpdateArgs, e \in BOOLEAN :
                update(id, u[1], u[2], u[3], u[4], e)) =>
           /\ id \in DOMAIN done'[L]
           /\ done'[L][id] = done[L][id]]_vars

\* C14: complete(id), show(id) and move(id, D) with D an existing list, on an
\* id that names no active task, report nothing, exit with code 0 and leave
\* the whole store unchanged.
C14_NotFoundIsNoop ==
  [][last'.op \in {"complete", "show", "move"} =>
       \/ /\ last'.exit = 0
          /\ last'.err = NoOutput
          /\ UNCHANGED store
       \/ ~ \E id \in Ids :
              /\ Matches(id) = <<>>
              /\ \/ complete(id)
                 \/ show(id)
                 \/ \E D \in Lists : move(id, D)]_vars

C14_Witness ==
  /\ last = Result("complete", NoOutput, 0)
  /\ NumFiles > 0
  /\ \A L \in ListNames : done[L] = <<>>

\* C15: update, complete, move and show invoked with an id act on the same
\* file: the first match of the scan over the active partitions, also when
\* the id is active in more than one list.
C15_SameTargetFile ==
  [][\A id \in Ids :
       Matches(id) # <<>> =>
         LET first == Head(Matches(id))
         IN  /\ (last'.op = "complete" /\ complete(id)) =>
                  \A L \in ListNames \ {first} : active'[L] = active[L]
             /\ (last'.op = "show" /\ show(id)) => last'.out = first
             /\ \A D \in Lists :
                  (last'.op = "move" /\ move(id, D)) =>
                    /\ \A L \in ListNames \ {first, D} : active'[L] = active[L]
                    /\ active'[D][id] = active[first][id]
             /\ \A u \in UpdateArgs :
                  (last'.op = "update" /\ update(id, u[1], u[2], u[3], u[4], FALSE)) =>
                    /\ \A L \in ListNames \ {first} : active'[L] = active[L]
                    /\ active'[first][id].doc =
                         to_toml_string(Overwrite(from_toml_file(<<first, id>>),
                                                  u[1], u[2], u[3], u[4]))]_vars

\* C16: update on an id that names no active task (also on a store without
\* lists) creates, rewrites or moves no file and exits with code 1.
C16_UpdateNotFoundFails ==
  [][last'.op = "update" =>
       \/ /\ last'.exit = 1
          /\ UNCHANGED store
       \/ ~ \E id \in Ids :
              /\ Matches(id) = <<>>
              /\ \E u \in UpdateArgs, e \in BOOLEAN :
                    update(id, u[1], u[2], u[3], u[4], e)]_vars

C16_Witness ==
  /\ last = Result("update", AnErrorOccured, 1)
  /\ \A L \in ListNames : active[L] = <<>>
  /\ NumFiles > 0

\* the partitions that hold a file with this id
Places(id) == {<<x[1], x[2]>> : x \in {y \in FilesOf(active, done) : y[3] = id}}
ConcIds == {hexdigest(1), hexdigest(2)}

\* C17 (as stated): with two invocations interleaved without locking, every
\* task id stays in exactly one place: never in two lists or partitions,
\* never lost.
C17_OnePlaceUnderRaces ==
  \A id \in ConcIds : Cardinality(Places(id)) = 1

\* C17 (amended): the id stays in exactly one place unless an update races
\* with a complete or move of the same id; complete and move racing with each
\* other never duplicate or lose the task.
C17_RenamesKeepOnePlace ==
  (\A p \in Procs, q \in Procs :
      ~(/\ procs[p].cmd = "update"
        /\ procs[q].cmd \in {"complete", "move"}
        /\ procs[p].id = procs[q].id)) =>
    \A id \in ConcIds : Cardinality(Places(id)) = 1

C17_Witness ==
  /\ \A p \in Procs : procs[p].pc = "done" /\ procs[p].cmd \in {"complete", "move"}
  /\ procs[1].id = procs[2].id
  /\ procs[1].id \in ConcIds
  /\ \E p \in Procs : procs[p].exit = 1

====
